---- MODULE Spec2Model ----
(***************************************************************************)
(* Write-behind attendance cache of the MUN QR scanner (src/B2_main.py),   *)
(* and, further down, the in-memory variant of the same application       *)
(* (src/app.py with src/services.py).                                      *)
(*                                                                         *)
(* Shared state: the Redis hash "attendance_cache" (Fast Cache), the Redis *)
(* list "pending_attendance" (Pending Queue) and the Attendance_Log sheet  *)
(* (Ledger).  Every Flask request handler is a sequence of Redis / Sheets  *)
(* calls; each call is one atomic step and the handlers of different       *)
(* clients interleave between calls.                                       *)
(***************************************************************************)
EXTENDS Integers, Sequences, FiniteSets, Bags, TLC

VARIABLES
    cache,      \* Redis hash attendance_cache: Delegate_ID -> record
    pending,    \* Redis list pending_attendance: sequence of records
    sheet,      \* Attendance_Log worksheet: sequence of rows
    now,        \* the latest value datetime.now() has returned
    session,    \* per client: session["oc_id"], or NoOc when absent
    pc,         \* per client: position of its request handler
    did,        \* per client: delegate_id argument of the running request
    record,     \* per client: local variable `record` of scan / validate
    rows,       \* per client: local variable `rows` of flush_pending
    records,    \* per client: local variable `records` of refresh_cache
    idx,        \* per client: position of a `for r in ...` loop
    caller,     \* per client: the route that called flush_pending
    flushed,    \* per client: value flush_pending is returning, else -1
    resp,       \* per client: the HTTP response being sent, else NoResponse
    started,    \* number of admissions begun so far (bounds the model)
    attendance_log, \* services.py: AttendanceService._attendance_log
    app_session,    \* app.py, B1_login.py: session["oc_id"] of their client
                    \* (one cookie: both sign it with the same key), or NoOc
    outcome,        \* services.py / app.py: the last call and what it gave
    first_mark      \* history: delegate_id -> the record of its first mark

\* state of the Redis-backed application (src/B2_main.py), the clock apart
b2_vars == <<cache, pending, sheet, session, pc, did, record, rows,
             records, idx, caller, flushed, resp, started>>

\* state of the in-memory application (src/app.py, src/services.py)
service_vars == <<attendance_log, app_session, outcome, first_mark>>

vars == <<cache, pending, sheet, now, session, pc, did, record, rows,
          records, idx, caller, flushed, resp, started,
          attendance_log, app_session, outcome, first_mark>>

----------------------------------------------------------------------------
(* Bounds of the model *)

\* timestamps take the values 1 .. MaxTime
MaxTime == 2
\* at most this many admissions are begun in a run
MaxEvents == 2
\* queue length at which a request flushes; scaled stand-in for the
\* literal 50 of src/B2_main.py lines 136 and 187
FLUSH_THRESHOLD == 2

\* two clients whose requests the server handles concurrently
Procs == {1, 2}
Times == 1 .. MaxTime

----------------------------------------------------------------------------
(* Static data loaded at start-up *)

NoOc == ""
NoId == ""

\* str.strip() on the identifiers that occur in the sheets
Strip(s) ==
    CASE s = " D1 " -> "D1"
      [] s = " OC7" -> "OC7"
      [] s = "pw9 " -> "pw9"
      [] OTHER      -> s

\* A Python int n is written "int:n", a Python str is written as it is.
\* What gspread's get_all_records() makes of a cell: a cell that reads as
\* a number comes back as an int, every other cell as the str it holds.
Numericise(s) ==
    CASE s = "79" -> "int:79"
      [] s = "22" -> "int:22"
      [] OTHER    -> s

\* str(v), which is also how Jinja renders v and how redis-py encodes a key
Str(v) ==
    CASE v = "int:79" -> "79"
      [] v = "int:22" -> "22"
      [] OTHER        -> v

\* OC_Details sheet, as get_all_records() returns it
ocs_sheet ==
    { [OC_ID |-> Numericise(" OC7"), Password |-> Numericise("pw7")],
      [OC_ID |-> Numericise("79"),   Password |-> Numericise("pw9 ")] }

OcIds == { Strip(Str(r.OC_ID)) : r \in ocs_sheet }

oc_list ==
    [ o \in OcIds |->
        Strip((CHOOSE r \in ocs_sheet : Strip(Str(r.OC_ID)) = o).Password) ]

\* Master_Sheet, as get_all_records() returns it
master_sheet ==
    { [Delegate_ID |-> Numericise(" D1 "), Name |-> Numericise("Ann"),
       Committee |-> Numericise("UNSC"), Portfolio |-> Numericise("France")],
      [Delegate_ID |-> Numericise("22"), Name |-> Numericise("Bob"),
       Committee |-> Numericise("WHO"), Portfolio |-> Numericise("")] }

Roster == { Strip(Str(r.Delegate_ID)) : r \in master_sheet }

delegates ==
    [ d \in Roster |->
        LET r == CHOOSE x \in master_sheet : Strip(Str(x.Delegate_ID)) = d
        IN [name |-> r.Name, committee |-> r.Committee, portfolio |-> r.Portfolio] ]

\* identifiers a client may put in a URL, and credentials it may submit
UrlIds == Roster \cup {"D9"}
FormPasswords == {"pw7", "pw9"}
\* what an operator may type into the manual entry form
FormIds == {" D1 ", "D9"}

\* the operator whose badge the person at client p carries
ClientOc(p) == IF p % 2 = 1 THEN "OC7" ELSE "79"

\* the operator ids client p types into the login form
FormOcIds(p) == {ClientOc(p), "OC0"}

----------------------------------------------------------------------------
(* Records, rows and the Redis primitives *)

NoRecord ==
    [Delegate_ID |-> NoId, name |-> "", committee |-> "", portfolio |-> "",
     scanned_by |-> NoOc, timestamp |-> 0]

\* datetime.now(): the clock never runs backwards, and between two reads
\* it has either stayed within the same second or moved on
ClockReads == { t \in Times : now <= t /\ t <= now + 1 }

\* the dict built by scan and validate
MakeRecord(d, oc, ts) ==
    [Delegate_ID |-> d,
     name        |-> delegates[d].name,
     committee   |-> delegates[d].committee,
     portfolio   |-> delegates[d].portfolio,
     scanned_by  |-> oc,
     timestamp   |-> ts]

\* Row with the name and the committee in each other's column
Row_SwappedColumns(r) ==
    << Strip(Str(r.Delegate_ID)), r.committee, r.name, r.portfolio,
       Strip(Str(r.scanned_by)), r.timestamp >>

\* flush_pending: queued record -> sheet row
Row(r) ==
    << Strip(Str(r.Delegate_ID)), r.name, r.committee, r.portfolio,
       Strip(Str(r.scanned_by)), r.timestamp >>

\* RowRecord with the operator read from the wrong column
RowRecord_WrongColumn(r) ==
    [Delegate_ID |-> r[1], name |-> r[2], committee |-> r[3],
     portfolio |-> r[4], scanned_by |-> r[4], timestamp |-> r[6]]

\* flush_pending: sheet row -> record written back to the cache
RowRecord(r) ==
    [Delegate_ID |-> r[1], name |-> r[2], committee |-> r[3],
     portfolio |-> r[4], scanned_by |-> r[5], timestamp |-> r[6]]

\* Header row of Attendance_Log, as the keys read by scan and refresh_cache
\* require it
Header == <<"Delegate_ID", "name", "committee", "portfolio", "scanned_by", "timestamp">>

\* attendance_sheet.get_all_records(): one dict per row, keyed by the
\* header, its cells numericised; a "%Y-%m-%d %H:%M:%S" time does not read
\* as a number and stays as it is
SheetRecord(r) ==
    LET col(h) == CHOOSE i \in DOMAIN Header : Header[i] = h
    IN [Delegate_ID |-> Numericise(r[col("Delegate_ID")]),
        name        |-> Numericise(r[col("name")]),
        committee   |-> Numericise(r[col("committee")]),
        portfolio   |-> Numericise(r[col("portfolio")]),
        scanned_by  |-> Numericise(r[col("scanned_by")]),
        timestamp   |-> r[col("timestamp")]]

get_all_records(sh) == [ i \in DOMAIN sh |-> SheetRecord(sh[i]) ]

EmptyHash == [ k \in {} |-> NoRecord ]

HExists(h, k) == k \in DOMAIN h

HGet(h, k) == IF k \in DOMAIN h THEN h[k] ELSE NoRecord

HSet(h, k, v) == [ x \in DOMAIN h \cup {k} |-> IF x = k THEN v ELSE h[x] ]

\* any(json.loads(r)["Delegate_ID"] == delegate_id for r in lrange(...))
InPending(q, d) == \E i \in DOMAIN q : q[i].Delegate_ID = d

\* ThresholdReached with > written for >=
ThresholdReached_Strict(q) == Len(q) > FLUSH_THRESHOLD

\* redis_client.llen("pending_attendance") >= 50
ThresholdReached(q) == Len(q) >= FLUSH_THRESHOLD

\* CredentialsOk that looks at the operator id alone
CredentialsOk_IdOnly(oc, pw) == oc \in DOMAIN oc_list

\* oc_id in oc_list and oc_list[oc_id] == password
CredentialsOk(oc, pw) == oc \in DOMAIN oc_list /\ oc_list[oc] = pw

----------------------------------------------------------------------------
(* Responses *)

Response(kind, d, by, ts) ==
    [kind |-> kind, did |-> d, scanned_by |-> by, timestamp |-> ts]

NoResponse == Response("none", NoId, NoOc, 0)

\* events drained by a running flush_pending and not yet appended
Unappended(p) == IF pc[p] \in {"flush_lpop", "flush_append"} THEN rows[p] ELSE <<>>

\* the model lets at most MaxEvents admissions begin
Budget == started < MaxEvents

----------------------------------------------------------------------------
(* Values of the in-memory application (src/services.py, src/models.py) *)

\* oc_list.json as AuthenticationService._load_oc_members keeps it:
\* operator id -> password, both as the file has them
oc_members == [ o \in {"OC7", "79"} |-> IF o = "OC7" THEN "pw7" ELSE "pw9" ]

\* OrganizingCommittee.verify_password
verify_password(own, password) == own = password

\* arguments a caller may pass to the services
ServiceOcIds == {"", "OC7", "79", "OC0"}
ServicePasswords == {"", "pw7", "pw9"}
ServiceIds == {"", "D1", "22"}

\* AttendanceRecord
AttendanceRecord(delegate_id, oc_id, ts) ==
    [delegate_id |-> delegate_id, scanned_by |-> oc_id, timestamp |-> ts]

NoAttendanceRecord == AttendanceRecord("", "", 0)

\* the empty _attendance_log
NoAttendance == [ k \in {} |-> NoAttendanceRecord ]

\* the first marks f, with the first record of every delegate that log
\* holds and f does not
FirstMarks(f, log) ==
    [ d \in DOMAIN f \cup DOMAIN log |-> IF d \in DOMAIN f THEN f[d] ELSE log[d] ]

\* the Python int n, written as Numericise writes one
IntStr(n) == "int:" \o ToString(n)

\* del d[k]
HDel(h, k) == [ x \in DOMAIN h \ {k} |-> h[x] ]

\* list(d.keys()): a dict lists its keys in the order they were inserted;
\* the log is kept here as a function, and one fixed order stands for it
RECURSIVE Listed(_)
Listed(S) ==
    IF S = {} THEN <<>>
    ELSE LET k == CHOOSE x \in S : TRUE IN <<k>> \o Listed(S \ {k})

\* the loop of get_attendance_summary lines 367-369, from record i on
RECURSIVE OcCounts(_, _, _)
OcCounts(recs, i, oc_counts) ==
    IF i > Len(recs) THEN oc_counts
    ELSE LET oc == recs[i].scanned_by
             had == IF oc \in DOMAIN oc_counts THEN oc_counts[oc] ELSE 0
         IN OcCounts(recs, i + 1,
                     [ x \in DOMAIN oc_counts \cup {oc} |->
                           IF x = oc THEN had + 1 ELSE oc_counts[x] ])

\* the summary that counts an operator once however many it scanned
get_attendance_summary_OncePerOc(log) ==
    LET keys == Listed(DOMAIN log)
        recs == [ i \in 1..Len(keys) |-> log[keys[i]] ]
    IN [ total_scanned        |-> Len(keys),
         records              |-> recs,
         scanned_by_oc        |-> [ oc \in { recs[i].scanned_by : i \in 1..Len(recs) } |-> 1 ],
         present_delegate_ids |-> keys ]

\* AttendanceService.get_attendance_summary
get_attendance_summary(log) ==
    LET keys == Listed(DOMAIN log)
        recs == [ i \in 1..Len(keys) |-> log[keys[i]] ]
    IN [ total_scanned        |-> Len(keys),
         records              |-> recs,
         scanned_by_oc        |-> OcCounts(recs, 1, << >>),
         present_delegate_ids |-> keys ]

\* what a call gave: the value it returned (a bool as "True" / "False", a
\* record in rec), or the exception it raised
Returned(v) == [raised |-> "", value |-> v, rec |-> NoAttendanceRecord]
ReturnedRecord(r) == [raised |-> "", value |-> "record", rec |-> r]
Raised(e) == [raised |-> e, value |-> "", rec |-> NoAttendanceRecord]

\* the call op(a, b) with what it gave
Call(op, a, b, gave) == [op |-> op, a |-> a, b |-> b, gave |-> gave]

NoOutcome == Call("none", "", "", Returned(""))

\* AuthenticationService.authenticate of services.py
authenticate(oc_id, password) ==
    IF oc_id = "" \/ password = "" THEN
        Raised("AuthenticationFailedException")
    ELSE IF oc_id \notin DOMAIN oc_members THEN
        Raised("AuthenticationFailedException")
    ELSE IF ~verify_password(oc_members[oc_id], password) THEN
        Raised("AuthenticationFailedException")
    ELSE
        Returned("True")

\* AuthenticationService.authenticate of main.py
main_authenticate(oc_id, password) ==
    IF oc_id \notin DOMAIN oc_members THEN
        Returned("False")
    ELSE IF verify_password(oc_members[oc_id], password) THEN
        Returned("True")
    ELSE
        Returned("False")

\* AttendanceService.is_present
is_present(log, delegate_id) == delegate_id \in DOMAIN log

\* delegates.json as DelegateService._load_delegates keeps it: its keys
delegate_ids == {"D1", "22"}

\* what a client of app.py or B1_login.py may type into the login form,
\* and the ids it may put in a URL
AppFormOcIds == {"", "OC7", " OC7", "79", "OC0"}
AppFormPasswords == {"", "pw7", "pw9", "pw9 "}
AppUrlIds == delegate_ids \cup {"D9"}

\* MUNScannerApp._is_authenticated
is_authenticated(sess) == sess # NoOc /\ sess \in DOMAIN oc_members

----------------------------------------------------------------------------
(* Initial state: empty Redis, empty Attendance_Log, nobody logged in *)

Init ==
    /\ cache = EmptyHash
    /\ pending = <<>>
    /\ sheet = <<>>
    /\ now = 1
    /\ session = [p \in Procs |-> NoOc]
    /\ pc = [p \in Procs |-> "idle"]
    /\ did = [p \in Procs |-> NoId]
    /\ record = [p \in Procs |-> NoRecord]
    /\ rows = [p \in Procs |-> <<>>]
    /\ records = [p \in Procs |-> <<>>]
    /\ idx = [p \in Procs |-> 0]
    /\ caller = [p \in Procs |-> "none"]
    /\ flushed = [p \in Procs |-> -1]
    /\ resp = [p \in Procs |-> NoResponse]
    /\ started = 0
    /\ attendance_log = NoAttendance
    /\ app_session = NoOc
    /\ outcome = NoOutcome
    /\ first_mark = NoAttendance

----------------------------------------------------------------------------
(* Request handlers *)

\* the handler of client p returns response r; its locals die with it
Return(p, r) ==
    /\ pc' = [pc EXCEPT ![p] = "respond"]
    /\ idx' = [idx EXCEPT ![p] = 0]
    /\ resp' = [resp EXCEPT ![p] = r]
    /\ did' = [did EXCEPT ![p] = NoId]
    /\ record' = [record EXCEPT ![p] = NoRecord]
    /\ rows' = [rows EXCEPT ![p] = <<>>]
    /\ records' = [records EXCEPT ![p] = <<>>]
    /\ caller' = [caller EXCEPT ![p] = "none"]

\* the handler answers 302 to /scan/<d>; the client follows the redirect
RedirectToScan(p, d) ==
    /\ pc' = [pc EXCEPT ![p] = "redirect_scan"]
    /\ did' = [did EXCEPT ![p] = d]
    /\ resp' = [resp EXCEPT ![p] = Response("redirect_scan", d, NoOc, 0)]
    /\ record' = [record EXCEPT ![p] = NoRecord]
    /\ rows' = [rows EXCEPT ![p] = <<>>]
    /\ caller' = [caller EXCEPT ![p] = "none"]
    /\ UNCHANGED <<records, idx>>

\* the response reaches the client, which may then send its next request
Deliver(p) ==
    /\ pc[p] = "respond"
    /\ pc' = [pc EXCEPT ![p] = "idle"]
    /\ resp' = [resp EXCEPT ![p] = NoResponse]
    /\ UNCHANGED <<cache, pending, sheet, now, session, started, did, record, rows,
                   records, idx, caller, flushed>>
    /\ UNCHANGED service_vars

\* POST /login
Login(p, oc, pw) ==
    /\ pc[p] = "idle"
    /\ IF CredentialsOk(oc, pw)
         THEN /\ session' = [session EXCEPT ![p] = oc]
              /\ Return(p, Response("redirect_home", NoId, NoOc, 0))
         ELSE /\ session' = session
              /\ Return(p, Response("invalid_credentials", NoId, NoOc, 0))
    /\ UNCHANGED <<cache, pending, sheet, now, flushed, started>>
    /\ UNCHANGED service_vars

\* Logout that leaves the oc_id in the session
Logout_KeepsSession(p) ==
    /\ pc[p] = "idle"
    /\ session' = session
    /\ Return(p, Response("redirect_login", NoId, NoOc, 0))
    /\ UNCHANGED <<cache, pending, sheet, now, flushed, started>>
    /\ UNCHANGED service_vars

\* GET /logout
Logout(p) ==
    /\ pc[p] = "idle"
    /\ session' = [session EXCEPT ![p] = NoOc]
    /\ Return(p, Response("redirect_login", NoId, NoOc, 0))
    /\ UNCHANGED <<cache, pending, sheet, now, flushed, started>>
    /\ UNCHANGED service_vars

\* ScanEnter whose "already" card names the operator of the request and
\* the latest time read
ScanEnter_ShowsCaller(p, d) ==
    /\ IF session[p] = NoOc THEN
           /\ Return(p, Response("401", d, NoOc, 0))
           /\ UNCHANGED <<cache, pending, sheet, now, session, started, flushed>>
       ELSE IF d \notin DOMAIN delegates THEN
           /\ Return(p, Response("404", d, NoOc, 0))
           /\ UNCHANGED <<cache, pending, sheet, now, session, started, flushed>>
       ELSE IF HGet(cache, d) # NoRecord THEN
           /\ Return(p, Response("already", d, session[p], now))
           /\ UNCHANGED <<cache, pending, sheet, now, session, started, flushed>>
       ELSE
           /\ Budget
           /\ pc' = [pc EXCEPT ![p] = "scan_rpush"]
           /\ did' = [did EXCEPT ![p] = d]
           /\ \E t \in ClockReads :
                 /\ now' = t
                 /\ record' = [record EXCEPT ![p] = MakeRecord(d, session[p], t)]
           /\ resp' = [resp EXCEPT ![p] = NoResponse]
           /\ started' = started + 1
           /\ UNCHANGED <<cache, pending, sheet, session, rows, records,
                          idx, caller, flushed>>
    /\ UNCHANGED service_vars

\* scan(), from its first line to the hget and the building of
\* scanned_delegate: a cache hit is answered at once ("already"), a miss
\* leaves the handler with a fresh record to push
ScanEnter(p, d) ==
    /\ IF session[p] = NoOc THEN
           /\ Return(p, Response("401", d, NoOc, 0))
           /\ UNCHANGED <<cache, pending, sheet, now, session, started, flushed>>
       ELSE IF d \notin DOMAIN delegates THEN
           /\ Return(p, Response("404", d, NoOc, 0))
           /\ UNCHANGED <<cache, pending, sheet, now, session, started, flushed>>
       ELSE IF HGet(cache, d) # NoRecord THEN
           /\ Return(p, Response("already", d, Str(HGet(cache, d).scanned_by),
                                             HGet(cache, d).timestamp))
           /\ UNCHANGED <<cache, pending, sheet, now, session, started, flushed>>
       ELSE
           /\ Budget
           /\ pc' = [pc EXCEPT ![p] = "scan_rpush"]
           /\ did' = [did EXCEPT ![p] = d]
           /\ \E t \in ClockReads :
                 /\ now' = t
                 /\ record' = [record EXCEPT ![p] = MakeRecord(d, session[p], t)]
           /\ resp' = [resp EXCEPT ![p] = NoResponse]
           /\ started' = started + 1
           /\ UNCHANGED <<cache, pending, sheet, session, rows, records,
                          idx, caller, flushed>>
    /\ UNCHANGED service_vars

\* GET /scan/<d>
Scan(p, d) ==
    /\ pc[p] = "idle"
    /\ ScanEnter(p, d)

\* the client follows a 302 to /scan/<d>
FollowRedirect(p) ==
    /\ pc[p] = "redirect_scan"
    /\ ScanEnter(p, did[p])

\* scan line 134
ScanRpush(p) ==
    /\ pc[p] = "scan_rpush"
    /\ pending' = Append(pending, record[p])
    /\ pc' = [pc EXCEPT ![p] = "scan_hset"]
    /\ UNCHANGED <<cache, sheet, now, session, started, did, record, rows, records,
                   idx, caller, flushed, resp>>
    /\ UNCHANGED service_vars

\* scan line 135
ScanHset(p) ==
    /\ pc[p] = "scan_hset"
    /\ cache' = HSet(cache, did[p], record[p])
    /\ pc' = [pc EXCEPT ![p] = "scan_llen"]
    /\ UNCHANGED <<pending, sheet, now, session, started, did, record, rows, records,
                   idx, caller, flushed, resp>>
    /\ UNCHANGED service_vars

\* the response of a scan that admitted: status "success", the operator
\* and time of the record it built
ScanSuccess(p) ==
    Response("success", did[p], record[p].scanned_by, record[p].timestamp)

\* scan lines 136-137, and the response when no flush is due
ScanLlen(p) ==
    /\ pc[p] = "scan_llen"
    /\ IF ThresholdReached(pending)
         THEN /\ pc' = [pc EXCEPT ![p] = "flush_lpop"]
              /\ caller' = [caller EXCEPT ![p] = "scan"]
              /\ rows' = [rows EXCEPT ![p] = <<>>]
              /\ UNCHANGED <<did, record, records, idx, resp>>
         ELSE Return(p, ScanSuccess(p))
    /\ UNCHANGED <<cache, pending, sheet, now, session, started, flushed>>
    /\ UNCHANGED service_vars

\* POST /validate/<d>, to the hexists of line 172
Validate(p, d) ==
    /\ pc[p] = "idle"
    /\ IF session[p] = NoOc THEN
            /\ Return(p, Response("redirect_login", d, NoOc, 0))
            /\ started' = started
       ELSE IF HExists(cache, d) THEN
            /\ RedirectToScan(p, d)
            /\ started' = started
       ELSE
            /\ Budget
            /\ pc' = [pc EXCEPT ![p] = "val_lrange"]
            /\ did' = [did EXCEPT ![p] = d]
            /\ resp' = [resp EXCEPT ![p] = NoResponse]
            /\ started' = started + 1
            /\ UNCHANGED <<record, rows, records, idx, caller>>
    /\ UNCHANGED <<cache, pending, sheet, now, session, flushed>>
    /\ UNCHANGED service_vars

\* validate lines 173-184: the lrange, then the record
ValLrange(p) ==
    /\ pc[p] = "val_lrange"
    /\ IF InPending(pending, did[p]) THEN
            /\ RedirectToScan(p, did[p])
            /\ now' = now
       ELSE IF did[p] \notin DOMAIN delegates THEN
            \* delegates[delegate_id] raises KeyError
            /\ Return(p, Response("500", did[p], NoOc, 0))
            /\ now' = now
       ELSE
            /\ pc' = [pc EXCEPT ![p] = "val_rpush"]
            /\ \E t \in ClockReads :
                  /\ now' = t
                  /\ record' = [record EXCEPT ![p] =
                                    MakeRecord(did[p], session[p], t)]
            /\ UNCHANGED <<did, rows, records, idx, caller, resp>>
    /\ UNCHANGED <<cache, pending, sheet, session, started, flushed>>
    /\ UNCHANGED service_vars

\* ValRpush that waits while any request is inside append_rows
ValRpush_WaitsForLedger(p) ==
    /\ \A q \in Procs : pc[q] # "flush_append"
    /\ pc[p] = "val_rpush"
    /\ pending' = Append(pending, record[p])
    /\ pc' = [pc EXCEPT ![p] = "val_hset"]
    /\ UNCHANGED <<cache, sheet, now, session, started, did, record, rows, records,
                   idx, caller, flushed, resp>>
    /\ UNCHANGED service_vars

\* validate line 185
ValRpush(p) ==
    /\ pc[p] = "val_rpush"
    /\ pending' = Append(pending, record[p])
    /\ pc' = [pc EXCEPT ![p] = "val_hset"]
    /\ UNCHANGED <<cache, sheet, now, session, started, did, record, rows, records,
                   idx, caller, flushed, resp>>
    /\ UNCHANGED service_vars

\* validate line 186
ValHset(p) ==
    /\ pc[p] = "val_hset"
    /\ cache' = HSet(cache, did[p], record[p])
    /\ pc' = [pc EXCEPT ![p] = "val_llen"]
    /\ UNCHANGED <<pending, sheet, now, session, started, did, record, rows, records,
                   idx, caller, flushed, resp>>
    /\ UNCHANGED service_vars

\* validate lines 187-189
ValLlen(p) ==
    /\ pc[p] = "val_llen"
    /\ IF ThresholdReached(pending)
         THEN /\ pc' = [pc EXCEPT ![p] = "flush_lpop"]
              /\ caller' = [caller EXCEPT ![p] = "validate"]
              /\ rows' = [rows EXCEPT ![p] = <<>>]
              /\ UNCHANGED <<did, record, records, idx, resp>>
         ELSE RedirectToScan(p, did[p])
    /\ UNCHANGED <<cache, pending, sheet, now, session, started, flushed>>
    /\ UNCHANGED service_vars

\* POST /manual_scan with delegate_id d typed into the form
ManualScan(p, d) ==
    /\ pc[p] = "idle"
    /\ IF session[p] = NoOc THEN
            Return(p, Response("redirect_login", NoId, NoOc, 0))
       ELSE IF Strip(d) \notin DOMAIN delegates THEN
            Return(p, Response("not_found", Strip(d), NoOc, 0))
       ELSE
            RedirectToScan(p, Strip(d))
    /\ UNCHANGED <<cache, pending, sheet, now, session, started, flushed>>
    /\ UNCHANGED service_vars

----------------------------------------------------------------------------
(* Redis unavailable during an admission *)

\* scan line 134: rpush raises; the exception leaves the route
ScanRpushFail(p) ==
    /\ pc[p] = "scan_rpush"
    /\ Return(p, Response("500", did[p], NoOc, 0))
    /\ UNCHANGED <<cache, pending, sheet, now, session, started, flushed>>
    /\ UNCHANGED service_vars

\* scan line 135: hset raises after the rpush of line 134 has succeeded
ScanHsetFail(p) ==
    /\ pc[p] = "scan_hset"
    /\ Return(p, Response("500", did[p], NoOc, 0))
    /\ UNCHANGED <<cache, pending, sheet, now, session, started, flushed>>
    /\ UNCHANGED service_vars

\* validate line 185: rpush raises
ValRpushFail(p) ==
    /\ pc[p] = "val_rpush"
    /\ Return(p, Response("500", did[p], NoOc, 0))
    /\ UNCHANGED <<cache, pending, sheet, now, session, started, flushed>>
    /\ UNCHANGED service_vars

\* validate line 186: hset raises after the rpush of line 185 has succeeded
ValHsetFail(p) ==
    /\ pc[p] = "val_hset"
    /\ Return(p, Response("500", did[p], NoOc, 0))
    /\ UNCHANGED <<cache, pending, sheet, now, session, started, flushed>>
    /\ UNCHANGED service_vars

----------------------------------------------------------------------------
(* flush_pending, called by scan and validate *)

\* FlushLpop as a drain that reads the whole list and then deletes it, in
\* two Redis calls, and appends whatever it read without the `if rows:`
FlushLpop_RangeThenDelete(p) ==
    /\ pc[p] = "flush_lpop"
    /\ \/ /\ idx[p] = 0
          /\ rows' = [rows EXCEPT ![p] = [i \in DOMAIN pending |-> Row(pending[i])]]
          /\ idx' = [idx EXCEPT ![p] = 1]
          /\ UNCHANGED <<pending, pc>>
       \/ /\ idx[p] = 1
          /\ pending' = <<>>
          /\ idx' = [idx EXCEPT ![p] = 0]
          /\ pc' = [pc EXCEPT ![p] = "flush_append"]
          /\ UNCHANGED rows
    /\ UNCHANGED <<cache, sheet, now, session, started, did, record, records,
                   caller, flushed, resp>>
    /\ UNCHANGED service_vars

\* FlushLpop that puts each drained row in front of the batch
FlushLpop_Stack(p) ==
    /\ pc[p] = "flush_lpop"
    /\ IF pending # <<>> THEN
            /\ pending' = Tail(pending)
            /\ rows' = [rows EXCEPT ![p] = <<Row(Head(pending))>> \o rows[p]]
            /\ UNCHANGED <<pc, flushed>>
       ELSE IF rows[p] # <<>> THEN
            /\ pc' = [pc EXCEPT ![p] = "flush_append"]
            /\ UNCHANGED <<pending, rows, flushed>>
       ELSE
            /\ pc' = [pc EXCEPT ![p] = "flush_return"]
            /\ flushed' = [flushed EXCEPT ![p] = Len(rows[p])]
            /\ UNCHANGED <<pending, rows>>
    /\ UNCHANGED <<cache, sheet, now, session, started, did, record, records, idx,
                   caller, resp>>
    /\ UNCHANGED service_vars

\* FlushLpop without the `if rows:` after the loop: the Ledger is called
\* with whatever was drained, also with nothing
FlushLpop_NoRowsCheck(p) ==
    /\ pc[p] = "flush_lpop"
    /\ IF pending # <<>> THEN
            /\ pending' = Tail(pending)
            /\ rows' = [rows EXCEPT ![p] = Append(rows[p], Row(Head(pending)))]
            /\ UNCHANGED pc
       ELSE
            /\ pc' = [pc EXCEPT ![p] = "flush_append"]
            /\ UNCHANGED <<pending, rows>>
    /\ UNCHANGED <<cache, sheet, now, session, started, did, record, records, idx,
                   caller, flushed, resp>>
    /\ UNCHANGED service_vars

\* FlushLpop whose loop goes on polling when a pop finds the queue empty
FlushLpop_KeepsPolling(p) ==
    /\ pc[p] = "flush_lpop"
    /\ IF pending # <<>> THEN
            /\ pending' = Tail(pending)
            /\ rows' = [rows EXCEPT ![p] = Append(rows[p], Row(Head(pending)))]
            /\ UNCHANGED <<pc, flushed>>
       ELSE
            UNCHANGED <<pc, pending, rows, flushed>>
    /\ UNCHANGED <<cache, sheet, now, session, started, did, record, records, idx,
                   caller, resp>>
    /\ UNCHANGED service_vars

\* one turn of the drain loop (lines 41-53): lpop, then either append the
\* row or leave the loop; after the loop `if rows:` decides what follows
FlushLpop(p) ==
    /\ pc[p] = "flush_lpop"
    /\ IF pending # <<>> THEN
            /\ pending' = Tail(pending)
            /\ rows' = [rows EXCEPT ![p] = Append(rows[p], Row(Head(pending)))]
            /\ UNCHANGED <<pc, flushed>>
       ELSE IF rows[p] # <<>> THEN
            /\ pc' = [pc EXCEPT ![p] = "flush_append"]
            /\ UNCHANGED <<pending, rows, flushed>>
       ELSE
            /\ pc' = [pc EXCEPT ![p] = "flush_return"]
            /\ flushed' = [flushed EXCEPT ![p] = Len(rows[p])]
            /\ UNCHANGED <<pending, rows>>
    /\ UNCHANGED <<cache, sheet, now, session, started, did, record, records, idx,
                   caller, resp>>
    /\ UNCHANGED service_vars

\* attendance_sheet.append_rows(rows) succeeds (line 55)
FlushAppend(p) ==
    /\ pc[p] = "flush_append"
    /\ sheet' = sheet \o rows[p]
    /\ IF rows[p] # <<>>
         THEN /\ pc' = [pc EXCEPT ![p] = "flush_hset"]
              /\ idx' = [idx EXCEPT ![p] = 1]
              /\ UNCHANGED flushed
         ELSE \* a `for` over no rows runs no turn
              /\ pc' = [pc EXCEPT ![p] = "flush_return"]
              /\ flushed' = [flushed EXCEPT ![p] = 0]
              /\ UNCHANGED idx
    /\ UNCHANGED <<cache, pending, now, session, started, did, record, rows, records,
                   caller, resp>>
    /\ UNCHANGED service_vars

\* attendance_sheet.append_rows(rows) raises: the exception leaves
\* flush_pending and the route, and the drained rows die with the handler
FlushAppendFail(p) ==
    /\ pc[p] = "flush_append"
    /\ Return(p, Response("500", did[p], NoOc, 0))
    /\ UNCHANGED <<cache, pending, sheet, now, session, started, flushed>>
    /\ UNCHANGED service_vars

\* one turn of `for r in rows: hset` (lines 56-64); after the last one
\* flush_pending returns len(rows)
FlushHset(p) ==
    /\ pc[p] = "flush_hset"
    /\ cache' = HSet(cache, rows[p][idx[p]][1], RowRecord(rows[p][idx[p]]))
    /\ IF idx[p] < Len(rows[p])
         THEN /\ idx' = [idx EXCEPT ![p] = idx[p] + 1]
              /\ UNCHANGED <<pc, flushed>>
         ELSE /\ idx' = [idx EXCEPT ![p] = 0]
              /\ pc' = [pc EXCEPT ![p] = "flush_return"]
              /\ flushed' = [flushed EXCEPT ![p] = Len(rows[p])]
    /\ UNCHANGED <<pending, sheet, now, session, started, did, record, rows, records,
                   caller, resp>>
    /\ UNCHANGED service_vars

\* back in the route: scan renders its card, validate redirects to scan
FlushReturn(p) ==
    /\ pc[p] = "flush_return"
    /\ flushed' = [flushed EXCEPT ![p] = -1]
    /\ IF caller[p] = "scan"
         THEN Return(p, ScanSuccess(p))
         ELSE RedirectToScan(p, did[p])
    /\ UNCHANGED <<cache, pending, sheet, now, session, started>>
    /\ UNCHANGED service_vars

----------------------------------------------------------------------------
(* refresh_cache, called by GET /refresh_cache *)

\* refresh_route to line 68: the session check, then get_all_records()
\* Refresh that does not look at the session
Refresh_NoSessionCheck(p) ==
    /\ pc[p] = "idle"
    /\ pc' = [pc EXCEPT ![p] = "refresh_delete"]
    /\ records' = [records EXCEPT ![p] = get_all_records(sheet)]
    /\ resp' = [resp EXCEPT ![p] = NoResponse]
    /\ UNCHANGED <<did, record, rows, idx, caller>>
    /\ UNCHANGED <<cache, pending, sheet, now, session, started, flushed>>
    /\ UNCHANGED service_vars

Refresh(p) ==
    /\ pc[p] = "idle"
    /\ IF session[p] = NoOc THEN
            Return(p, Response("redirect_login", NoId, NoOc, 0))
       ELSE
            /\ pc' = [pc EXCEPT ![p] = "refresh_delete"]
            /\ records' = [records EXCEPT ![p] = get_all_records(sheet)]
            /\ resp' = [resp EXCEPT ![p] = NoResponse]
            /\ UNCHANGED <<did, record, rows, idx, caller>>
    /\ UNCHANGED <<cache, pending, sheet, now, session, started, flushed>>
    /\ UNCHANGED service_vars

\* RefreshDelete that leaves the old entries in the cache
RefreshDelete_KeepsCache(p) ==
    /\ pc[p] = "refresh_delete"
    /\ IF records[p] # <<>>
         THEN /\ pc' = [pc EXCEPT ![p] = "refresh_hset"]
              /\ idx' = [idx EXCEPT ![p] = 1]
              /\ UNCHANGED <<did, record, rows, records, caller, resp>>
         ELSE Return(p, Response("refreshed", NoId, NoOc, 0))
    /\ UNCHANGED <<cache, pending, sheet, now, session, started, flushed>>
    /\ UNCHANGED service_vars

\* RefreshDelete that deletes the queue along with the cache
RefreshDelete_ClearsQueue(p) ==
    /\ pc[p] = "refresh_delete"
    /\ cache' = EmptyHash
    /\ pending' = <<>>
    /\ IF records[p] # <<>>
         THEN /\ pc' = [pc EXCEPT ![p] = "refresh_hset"]
              /\ idx' = [idx EXCEPT ![p] = 1]
              /\ UNCHANGED <<did, record, rows, records, caller, resp>>
         ELSE Return(p, Response("refreshed", NoId, NoOc, 0))
    /\ UNCHANGED <<sheet, now, session, started, flushed>>
    /\ UNCHANGED service_vars

\* redis_client.delete("attendance_cache") (line 69)
RefreshDelete(p) ==
    /\ pc[p] = "refresh_delete"
    /\ cache' = EmptyHash
    /\ IF records[p] # <<>>
         THEN /\ pc' = [pc EXCEPT ![p] = "refresh_hset"]
              /\ idx' = [idx EXCEPT ![p] = 1]
              /\ UNCHANGED <<did, record, rows, records, caller, resp>>
         ELSE Return(p, Response("refreshed", NoId, NoOc, 0))
    /\ UNCHANGED <<pending, sheet, now, session, started, flushed>>
    /\ UNCHANGED service_vars

\* one turn of `for r in records: hset` (lines 70-71)
RefreshHset(p) ==
    /\ pc[p] = "refresh_hset"
    /\ cache' = HSet(cache, Str(records[p][idx[p]].Delegate_ID),
                      records[p][idx[p]])
    /\ IF idx[p] < Len(records[p])
         THEN /\ idx' = [idx EXCEPT ![p] = idx[p] + 1]
              /\ UNCHANGED <<pc, did, record, rows, records, caller, resp>>
         ELSE Return(p, Response("refreshed", NoId, NoOc, 0))
    /\ UNCHANGED <<pending, sheet, now, session, started, flushed>>
    /\ UNCHANGED service_vars

----------------------------------------------------------------------------
(* Specifications *)

----------------------------------------------------------------------------
(* Calls to the services of the in-memory application *)

\* services.py: auth_service.authenticate(oc_id, password)
Authenticate(oc_id, password) ==
    /\ outcome' = Call("authenticate", oc_id, password, authenticate(oc_id, password))
    /\ UNCHANGED <<attendance_log, app_session, now>>
    /\ UNCHANGED b2_vars
    /\ first_mark' = FirstMarks(first_mark, attendance_log')

\* main.py: auth_service.authenticate(oc_id, password)
MainAuthenticate(oc_id, password) ==
    /\ outcome' = Call("main_authenticate", oc_id, password,
                       main_authenticate(oc_id, password))
    /\ UNCHANGED <<attendance_log, app_session, now>>
    /\ UNCHANGED b2_vars
    /\ first_mark' = FirstMarks(first_mark, attendance_log')

\* MarkAttendance that does not look at oc_id
MarkAttendance_NoOcCheck(delegate_id, oc_id) ==
    /\ IF delegate_id = "" THEN
            /\ outcome' = Call("mark_attendance", delegate_id, oc_id,
                               Raised("AttendanceException"))
            /\ UNCHANGED <<attendance_log, now>>
       ELSE IF delegate_id \in DOMAIN attendance_log THEN
            /\ outcome' = Call("mark_attendance", delegate_id, oc_id,
                               ReturnedRecord(attendance_log[delegate_id]))
            /\ UNCHANGED <<attendance_log, now>>
       ELSE
            \E t \in ClockReads :
                LET r == AttendanceRecord(delegate_id, oc_id, t)
                IN /\ now' = t
                   /\ attendance_log' = HSet(attendance_log, delegate_id, r)
                   /\ outcome' = Call("mark_attendance", delegate_id, oc_id,
                                      ReturnedRecord(r))
    /\ UNCHANGED app_session
    /\ UNCHANGED b2_vars
    /\ first_mark' = FirstMarks(first_mark, attendance_log')

\* services.py: attendance_service.mark_attendance(delegate_id, oc_id);
\* AttendanceRecord.create_new reads the clock
MarkAttendance(delegate_id, oc_id) ==
    /\ IF delegate_id = "" \/ oc_id = "" THEN
            /\ outcome' = Call("mark_attendance", delegate_id, oc_id,
                               Raised("AttendanceException"))
            /\ UNCHANGED <<attendance_log, now>>
       ELSE IF delegate_id \in DOMAIN attendance_log THEN
            /\ outcome' = Call("mark_attendance", delegate_id, oc_id,
                               ReturnedRecord(attendance_log[delegate_id]))
            /\ UNCHANGED <<attendance_log, now>>
       ELSE
            \E t \in ClockReads :
                LET r == AttendanceRecord(delegate_id, oc_id, t)
                IN /\ now' = t
                   /\ attendance_log' = HSet(attendance_log, delegate_id, r)
                   /\ outcome' = Call("mark_attendance", delegate_id, oc_id,
                                      ReturnedRecord(r))
    /\ UNCHANGED app_session
    /\ UNCHANGED b2_vars
    /\ first_mark' = FirstMarks(first_mark, attendance_log')

\* services.py: attendance_service.remove_attendance(delegate_id)
RemoveAttendance(delegate_id) ==
    /\ IF delegate_id \in DOMAIN attendance_log THEN
            /\ attendance_log' = HDel(attendance_log, delegate_id)
            /\ outcome' = Call("remove_attendance", delegate_id, "", Returned("True"))
       ELSE
            /\ attendance_log' = attendance_log
            /\ outcome' = Call("remove_attendance", delegate_id, "", Returned("False"))
    /\ UNCHANGED <<app_session, now>>
    /\ UNCHANGED b2_vars
    /\ first_mark' = FirstMarks(first_mark, attendance_log')

\* services.py: attendance_service.clear_all_attendance()
ClearAllAttendance ==
    /\ attendance_log' = NoAttendance
    /\ outcome' = Call("clear_all_attendance", "", "",
                       Returned(IntStr(Len(Listed(DOMAIN attendance_log)))))
    /\ UNCHANGED <<app_session, now>>
    /\ UNCHANGED b2_vars
    /\ first_mark' = FirstMarks(first_mark, attendance_log')

\* services.py: attendance_service.get_attendance_summary(); what it
\* returns is get_attendance_summary(attendance_log)
GetAttendanceSummary ==
    /\ outcome' = Call("get_attendance_summary", "", "", Returned("summary"))
    /\ UNCHANGED <<attendance_log, app_session, now>>
    /\ UNCHANGED b2_vars
    /\ first_mark' = FirstMarks(first_mark, attendance_log')

----------------------------------------------------------------------------
(* Routes of the in-memory application (src/app.py) and of B1_login.py *)

\* app.py: POST /login; both form fields are stripped, and a failed
\* authenticate raises AuthenticationFailedException, caught here
AppLogin(oc_form, pw_form) ==
    /\ LET oc_id == Strip(oc_form)
           password == Strip(pw_form)
       IN IF authenticate(oc_id, password) = Returned("True")
            THEN /\ app_session' = oc_id
                 /\ outcome' = Call("app_login", oc_form, pw_form,
                                    Returned("redirect_home"))
            ELSE /\ app_session' = app_session
                 /\ outcome' = Call("app_login", oc_form, pw_form,
                                    Returned("login_error"))
    /\ UNCHANGED <<attendance_log, now>>
    /\ UNCHANGED b2_vars
    /\ first_mark' = FirstMarks(first_mark, attendance_log')

\* app.py: GET /logout
AppLogout ==
    /\ app_session' = NoOc
    /\ outcome' = Call("app_logout", "", "", Returned("redirect_login"))
    /\ UNCHANGED <<attendance_log, now>>
    /\ UNCHANGED b2_vars
    /\ first_mark' = FirstMarks(first_mark, attendance_log')

\* app.py: GET /scan/<delegate_id>
AppScan(delegate_id) ==
    /\ outcome' =
          Call("app_scan", delegate_id, "",
               IF ~is_authenticated(app_session) THEN Returned("redirect_login")
               ELSE IF delegate_id \notin delegate_ids THEN Returned("404")
               ELSE IF is_present(attendance_log, delegate_id)
                       THEN ReturnedRecord(attendance_log[delegate_id])
               ELSE Returned("home"))
    /\ UNCHANGED <<attendance_log, app_session, now>>
    /\ UNCHANGED b2_vars
    /\ first_mark' = FirstMarks(first_mark, attendance_log')

\* app.py: POST /validate/<delegate_id>
AppValidate(delegate_id) ==
    /\ IF ~is_authenticated(app_session) THEN
            /\ outcome' = Call("app_validate", delegate_id, "", Returned("redirect_login"))
            /\ UNCHANGED <<attendance_log, now>>
       ELSE IF delegate_id \notin delegate_ids THEN
            /\ outcome' = Call("app_validate", delegate_id, "", Returned("404"))
            /\ UNCHANGED <<attendance_log, now>>
       ELSE IF is_present(attendance_log, delegate_id) THEN
            /\ outcome' = Call("app_validate", delegate_id, "", Returned("redirect_scan"))
            /\ UNCHANGED <<attendance_log, now>>
       ELSE
            \E t \in ClockReads :
                /\ now' = t
                /\ attendance_log' = HSet(attendance_log, delegate_id,
                                          AttendanceRecord(delegate_id, app_session, t))
                /\ outcome' = Call("app_validate", delegate_id, "",
                                   Returned("redirect_scan"))
    /\ UNCHANGED app_session
    /\ UNCHANGED b2_vars
    /\ first_mark' = FirstMarks(first_mark, attendance_log')

\* B1_login.py: POST /login; the form fields are compared as typed
B1Login(oc_form, pw_form) ==
    /\ IF oc_form \in DOMAIN oc_members /\ oc_members[oc_form] = pw_form
         THEN /\ app_session' = oc_form
              /\ outcome' = Call("b1_login", oc_form, pw_form, Returned("redirect_scan"))
         ELSE /\ app_session' = app_session
              /\ outcome' = Call("b1_login", oc_form, pw_form,
                                 Returned("invalid_credentials"))
    /\ UNCHANGED <<attendance_log, now>>
    /\ UNCHANGED b2_vars
    /\ first_mark' = FirstMarks(first_mark, attendance_log')

\* B1_login.py: GET /logout
B1Logout ==
    /\ app_session' = NoOc
    /\ outcome' = Call("b1_logout", "", "", Returned("redirect_home"))
    /\ UNCHANGED <<attendance_log, now>>
    /\ UNCHANGED b2_vars
    /\ first_mark' = FirstMarks(first_mark, attendance_log')

\* the services, called directly with any arguments
ServiceNext ==
    \/ \E oc \in ServiceOcIds, pw \in ServicePasswords : Authenticate(oc, pw)
    \/ \E oc \in ServiceOcIds, pw \in ServicePasswords : MainAuthenticate(oc, pw)
    \/ \E d \in ServiceIds, oc \in ServiceOcIds : MarkAttendance(d, oc)

ServiceSpec == Init /\ [][ServiceNext]_vars

\* the attendance service, called directly with any arguments
AttendanceNext ==
    \/ \E d \in ServiceIds, oc \in ServiceOcIds : MarkAttendance(d, oc)
    \/ \E d \in ServiceIds : RemoveAttendance(d)
    \/ ClearAllAttendance
    \/ GetAttendanceSummary

AttendanceSpec == Init /\ [][AttendanceNext]_vars

\* the routes of app.py, each request served in one piece
AppNext ==
    \/ \E oc \in AppFormOcIds, pw \in AppFormPasswords : AppLogin(oc, pw)
    \/ AppLogout
    \/ \E d \in AppUrlIds : AppScan(d)
    \/ \E d \in AppUrlIds : AppValidate(d)

AppSpec == Init /\ [][AppNext]_vars

----------------------------------------------------------------------------
(* Specifications of the Redis-backed application *)

\* a step of a handler that is already running
HandlerStep(p) ==
    \/ ScanRpush(p)
    \/ ScanHset(p)
    \/ ScanLlen(p)
    \/ ValLrange(p)
    \/ ValRpush(p)
    \/ ValHset(p)
    \/ ValLlen(p)
    \/ FlushLpop(p)
    \/ FlushAppend(p)
    \/ FlushHset(p)
    \/ FlushReturn(p)
    \/ FollowRedirect(p)
    \/ Deliver(p)

\* a step of a running refresh_cache
RefreshStep(p) ==
    \/ RefreshDelete(p)
    \/ RefreshHset(p)

\* a client sends a request to a route that can admit
Request(p) ==
    \/ \E oc \in FormOcIds(p), pw \in FormPasswords : Login(p, oc, pw)
    \/ \E d \in UrlIds : Scan(p, d)
    \/ \E d \in UrlIds : Validate(p, d)
    \/ \E d \in FormIds : ManualScan(p, d)

\* any step of client p
Step(p) ==
    \/ HandlerStep(p)
    \/ Request(p)
    \/ FlushAppendFail(p)
    \/ Refresh(p)
    \/ RefreshStep(p)

\* the deployed system: requests of all clients interleave call by call
Next ==
    \/ \E p \in Procs : Step(p)

Spec == Init /\ [][Next]_vars

\* no other client has a request in progress
Alone(p) == \A q \in Procs \ {p} : pc[q] = "idle"

\* one request at a time: each request, with the redirect it answers,
\* runs to completion before the next one starts
SeqNext ==
    \/ \E p \in Procs : \E oc \in FormOcIds(p), pw \in FormPasswords :
            Alone(p) /\ Login(p, oc, pw)
    \/ \E p \in Procs, d \in UrlIds : Alone(p) /\ Scan(p, d)
    \/ \E p \in Procs, d \in UrlIds : Alone(p) /\ Validate(p, d)
    \/ \E p \in Procs, d \in FormIds : Alone(p) /\ ManualScan(p, d)
    \/ \E p \in Procs : Alone(p) /\ Refresh(p)
    \/ \E p \in Procs : Alone(p) /\ ScanRpush(p)
    \/ \E p \in Procs : Alone(p) /\ ScanHset(p)
    \/ \E p \in Procs : Alone(p) /\ ScanLlen(p)
    \/ \E p \in Procs : Alone(p) /\ ValLrange(p)
    \/ \E p \in Procs : Alone(p) /\ ValRpush(p)
    \/ \E p \in Procs : Alone(p) /\ ValHset(p)
    \/ \E p \in Procs : Alone(p) /\ ValLlen(p)
    \/ \E p \in Procs : Alone(p) /\ FlushLpop(p)
    \/ \E p \in Procs : Alone(p) /\ FlushAppend(p)
    \/ \E p \in Procs : Alone(p) /\ FlushAppendFail(p)
    \/ \E p \in Procs : Alone(p) /\ FlushHset(p)
    \/ \E p \in Procs : Alone(p) /\ FlushReturn(p)
    \/ \E p \in Procs : Alone(p) /\ FollowRedirect(p)
    \/ \E p \in Procs : Alone(p) /\ Deliver(p)
    \/ \E p \in Procs : Alone(p) /\ RefreshDelete(p)
    \/ \E p \in Procs : Alone(p) /\ RefreshHset(p)

SeqSpec == Init /\ [][SeqNext]_vars

\* login, scan and validate only, with every Ledger append succeeding:
\* no refresh_cache runs
AdmitNext ==
    \/ \E p \in Procs : HandlerStep(p)
    \/ \E p \in Procs : Request(p)

AdmitSpec == Init /\ [][AdmitNext]_vars

\* AdmitSpec with room for one admission more than MaxEvents, so that an
\* admission can begin while a batch of FLUSH_THRESHOLD events is being
\* appended
OverlapInit ==
    /\ cache = EmptyHash
    /\ pending = <<>>
    /\ sheet = <<>>
    /\ now = 1
    /\ session = [p \in Procs |-> NoOc]
    /\ pc = [p \in Procs |-> "idle"]
    /\ did = [p \in Procs |-> NoId]
    /\ record = [p \in Procs |-> NoRecord]
    /\ rows = [p \in Procs |-> <<>>]
    /\ records = [p \in Procs |-> <<>>]
    /\ idx = [p \in Procs |-> 0]
    /\ caller = [p \in Procs |-> "none"]
    /\ flushed = [p \in Procs |-> -1]
    /\ resp = [p \in Procs |-> NoResponse]
    /\ started = -1
    /\ attendance_log = NoAttendance
    /\ app_session = NoOc
    /\ outcome = NoOutcome
    /\ first_mark = NoAttendance

OverlapSpec == OverlapInit /\ [][AdmitNext]_vars

\* OverlapSpec with every handler that has started running on (strong
\* fairness, as in LiveSpec); clients need not send requests
OverlapLiveSpec ==
    /\ OverlapInit
    /\ [][AdmitNext]_vars
    /\ \A p \in Procs : SF_vars(HandlerStep(p))

\* logging in and out, in each of the three programs that have a login
LoginNext ==
    \/ \E p \in Procs : \E oc \in FormOcIds(p), pw \in FormPasswords : Login(p, oc, pw)
    \/ \E p \in Procs : Logout(p)
    \/ \E p \in Procs : Deliver(p)
    \/ \E oc \in AppFormOcIds, pw \in AppFormPasswords : AppLogin(oc, pw)
    \/ AppLogout
    \/ \E oc \in AppFormOcIds, pw \in AppFormPasswords : B1Login(oc, pw)
    \/ B1Logout

LoginSpec == Init /\ [][LoginNext]_vars

\* B2_main.py and app.py are two programs, each with its own store: a
\* behaviour is a run of one of them, with logouts between the requests
RedisUntouched ==
    /\ cache = EmptyHash /\ pending = <<>> /\ sheet = <<>>
    /\ session = [p \in Procs |-> NoOc]
    /\ pc = [p \in Procs |-> "idle"]
    /\ started = 0

ServiceUntouched ==
    attendance_log = NoAttendance /\ app_session = NoOc /\ outcome = NoOutcome

EitherNext ==
    \/ ServiceUntouched /\ Next
    \/ ServiceUntouched /\ \E p \in Procs : Logout(p)
    \/ RedisUntouched /\ AppNext

EitherSpec == Init /\ [][EitherNext]_vars

\* admissions and flushes, with Redis failing at the push or at the cache
\* write of an admission
StoreFailNext ==
    \/ \E p \in Procs : HandlerStep(p)
    \/ \E p \in Procs : Request(p)
    \/ \E p \in Procs : ScanRpushFail(p)
    \/ \E p \in Procs : ScanHsetFail(p)
    \/ \E p \in Procs : ValRpushFail(p)
    \/ \E p \in Procs : ValHsetFail(p)

StoreFailSpec == Init /\ [][StoreFailNext]_vars

\* every Ledger append succeeds, and a handler that has started runs on:
\* the server does not abandon a request, and a step that the bound of
\* the model holds back for a while is taken once it is free again (strong
\* fairness).  Clients need not send requests.
LiveNext ==
    \/ \E p \in Procs : HandlerStep(p)
    \/ \E p \in Procs : Request(p)
    \/ \E p \in Procs : Refresh(p)
    \/ \E p \in Procs : RefreshStep(p)

LiveSpec ==
    /\ Init
    /\ [][LiveNext]_vars
    /\ \A p \in Procs : SF_vars(HandlerStep(p) \/ RefreshStep(p))

----------------------------------------------------------------------------
(* Vocabulary of the properties *)

\* what check(d) reports: the hget of scan finds a record
Present(c, d) == HGet(c, d) # NoRecord

\* client p takes this step
Steps(p) == pc'[p] # pc[p] \/ idx'[p] # idx[p] \/ rows'[p] # rows[p]

\* the rows of sheet-shaped sequence sq that belong to delegate d
RowsFor(sq, d) == { i \in DOMAIN sq : sq[i][1] = d }

QueuedFor(q, d) == { i \in DOMAIN q : q[i].Delegate_ID = d }

InSheet(d) == RowsFor(sheet, d) # {}

\* the number of events of delegate d that exist: queued, drained and not
\* yet appended, or in the Ledger
RECURSIVE UnappendedFor(_, _)
UnappendedFor(S, d) ==
    IF S = {} THEN 0
    ELSE LET p == CHOOSE x \in S : TRUE
         IN Cardinality(RowsFor(Unappended(p), d)) + UnappendedFor(S \ {p}, d)

EventsFor(d) ==
    Cardinality(QueuedFor(pending, d)) + UnappendedFor(Procs, d)
        + Cardinality(RowsFor(sheet, d))

\* the card a scan shows
IsCard(r) == r.kind \in {"success", "already"}

----------------------------------------------------------------------------
(* C1 *)

\* C1: however concurrent scan / validate requests for one participant
\* interleave, exactly one event for that participant is pushed, and all
\* the requests are shown the same recorded_by / recorded_at.  Stated for
\* the system without refresh_cache and without Ledger failures, where an
\* event, once pushed, stays in the queue, in a drained batch or in the
\* Ledger, so that counting them counts the pushes.
C1_ExactlyOneAdmitted ==
    /\ \A d \in Roster : EventsFor(d) <= 1
    /\ \A p, q \in Procs :
         (IsCard(resp[p]) /\ IsCard(resp[q]) /\ resp[p].did = resp[q].did)
            => /\ resp[p].scanned_by = resp[q].scanned_by
               /\ resp[p].timestamp = resp[q].timestamp

----------------------------------------------------------------------------
(* C2 *)

\* C2: in every reachable state the Ledger holds at most one row per
\* participant.
C2_OneLedgerRowPerParticipant ==
    \A d \in Roster : Cardinality(RowsFor(sheet, d)) <= 1

----------------------------------------------------------------------------
(* C3 *)

\* C3: a scan (the lookup) of a participant without an event changes
\* neither Fast Cache nor Pending Queue; only a confirmation (validate)
\* creates an event.
C3_ScanChangesNothing ==
    [][ \A p \in Procs :
          (pc[p] \in {"scan_rpush", "scan_hset", "scan_llen"} /\ Steps(p))
             => (cache' = cache /\ pending' = pending) ]_vars

----------------------------------------------------------------------------
(* C4 *)

\* a participant for whom an event has been admitted and still exists
Admitted(d) == EventsFor(d) >= 1 \/ HExists(cache, d)

\* C4: once an event has been admitted for a participant, no later
\* confirmation, by whichever operator, creates another one: it pushes
\* nothing for that participant and leaves the cached record as it is.
C4_AdmissionIdempotent ==
    [][ \A d \in Roster :
          Admitted(d) =>
            /\ Cardinality(QueuedFor(pending', d)) <= Cardinality(QueuedFor(pending, d))
            /\ (Present(cache, d) /\ Present(cache', d))
                  => /\ Str(HGet(cache', d).scanned_by) = Str(HGet(cache, d).scanned_by)
                     /\ HGet(cache', d).timestamp = HGet(cache, d).timestamp ]_vars

----------------------------------------------------------------------------
(* C5 *)

\* C5: a participant reported as checked in is reported as checked in
\* ever after, whatever flushes (successful or failed), rehydrations and
\* admissions follow.
C5_PresenceMonotonic ==
    [][ \A d \in Roster : Present(cache, d) => Present(cache', d) ]_vars

----------------------------------------------------------------------------
(* C6 *)

\* C6: every event in the Pending Queue is eventually appended to the
\* Ledger, also when the queue stays below the threshold (Ledger appends
\* succeed, running handlers run on).
C6_EventuallyPersisted ==
    \A d \in Roster : InPending(pending, d) ~> InSheet(d)

----------------------------------------------------------------------------
(* C7 *)

\* positions between a push and the llen that follows it, and the drain
AfterPushOrDraining ==
    {"scan_hset", "scan_llen", "val_hset", "val_llen", "flush_lpop"}

\* client p has just pushed the event that brought the queue to the
\* threshold: it is the last one queued and its llen check is still ahead
BroughtToThreshold(p) ==
    /\ pc[p] \in {"scan_hset", "val_hset"}
    /\ Len(pending) >= FLUSH_THRESHOLD
    /\ pending[Len(pending)] = record[p]

\* C7 as claimed: the request whose admission brings the queue to the
\* threshold runs flush_pending itself.
C7_FlushInSameRequest ==
    \A p \in Procs : BroughtToThreshold(p) ~> (pc[p] = "flush_lpop")

\* C7 as amended: an admission that finds FLUSH_THRESHOLD or more events
\* queued at its llen check runs flush_pending in the same request, with
\* no flush call from outside; the queue never rests at or above the
\* threshold (whenever it is that long, a request that pushed has its llen
\* check still ahead, or a request is draining); and a drain ends only on
\* an empty queue, so whatever is queued afterwards was pushed after it.
C7_ThresholdFlushes ==
    /\ [][ \A p \in Procs :
             (pc[p] \in {"scan_llen", "val_llen"} /\ Steps(p)
                 /\ Len(pending) >= FLUSH_THRESHOLD)
                => pc'[p] = "flush_lpop" ]_vars
    /\ [](Len(pending) >= FLUSH_THRESHOLD
             => \E p \in Procs : pc[p] \in AfterPushOrDraining)
    /\ [][ \A p \in Procs :
             (pc[p] = "flush_lpop" /\ pc'[p] # "flush_lpop")
                => (pending = <<>> /\ pending' = <<>>) ]_vars

\* a flush that the threshold started has drained and appended at least
\* FLUSH_THRESHOLD events and left the queue empty
C7_Witness ==
    \E p \in Procs :
        /\ pc[p] = "flush_return"
        /\ flushed[p] >= FLUSH_THRESHOLD
        /\ pending = <<>>

----------------------------------------------------------------------------
(* C8 *)

\* C8: a flush_pending that finds the queue empty returns 0, makes no
\* Ledger call and leaves Fast Cache, Pending Queue and Ledger as they
\* are, every time.
C8_EmptyFlushIsNoOp ==
    [][ \A p \in Procs :
          (pc[p] = "flush_lpop" /\ rows[p] = <<>> /\ pending = <<>> /\ Steps(p))
             => /\ pc'[p] = "flush_return"
                /\ flushed'[p] = 0
                /\ cache' = cache
                /\ pending' = pending
                /\ sheet' = sheet ]_vars

\* a flush_pending is returning 0
C8_Witness == \E p \in Procs : pc[p] = "flush_return" /\ flushed[p] = 0

----------------------------------------------------------------------------
(* C9 *)

\* no handler is between two of its Redis / Sheets calls
Quiescent == \A p \in Procs : pc[p] \in {"idle", "respond", "redirect_scan"}

\* the last Ledger row of delegate d
LastRow(d) == sheet[CHOOSE i \in RowsFor(sheet, d) : \A j \in RowsFor(sheet, d) : j <= i]

\* C9: with requests served one at a time, between requests the cache
\* holds, for every participant with a Ledger row, the record of that row,
\* with its participant, operator and time.  So the record check() shows
\* after a confirmation and a successful flush is the one it shows after
\* a rehydration, which rebuilds it from the same row.
C9_LedgerRoundTrip ==
    Quiescent =>
        \A d \in Roster :
            InSheet(d) =>
                /\ Present(cache, d)
                /\ Str(HGet(cache, d).Delegate_ID) = d
                /\ Str(HGet(cache, d).scanned_by) = LastRow(d)[5]
                /\ HGet(cache, d).timestamp = LastRow(d)[6]

\* a rehydration has completed: a participant confirmed by operator 79 and
\* flushed to the Ledger is cached as the rehydration read the row (the
\* operator an int), and is shown with the operator and time of the row
C9_Witness ==
    \E p \in Procs :
        /\ pc[p] = "respond"
        /\ resp[p].kind = "refreshed"
        /\ \E d \in Roster :
              /\ InSheet(d)
              /\ HGet(cache, d) = SheetRecord(LastRow(d))
              /\ HGet(cache, d).scanned_by = "int:79"
              /\ Str(HGet(cache, d).scanned_by) = LastRow(d)[5]
              /\ HGet(cache, d).timestamp \in Times

----------------------------------------------------------------------------
(* C10 *)

\* a sequence as a bag
SeqBag(sq) ==
    [ e \in { sq[i] : i \in DOMAIN sq } |-> Cardinality({ i \in DOMAIN sq : sq[i] = e }) ]

RECURSIVE UnappendedBag(_)
UnappendedBag(S) ==
    IF S = {} THEN EmptyBag
    ELSE LET p == CHOOSE x \in S : TRUE
         IN SeqBag(Unappended(p)) (+) UnappendedBag(S \ {p})

QueueBag == SeqBag([ i \in DOMAIN pending |-> Row(pending[i]) ])

\* every event outside the cache, as its row: queued, drained and not yet
\* appended, or appended
Pool == QueueBag (+) UnappendedBag(Procs) (+) SeqBag(sheet)

\* the step touches neither the queue, nor a drained batch, nor the Ledger
DrainUntouched ==
    /\ pending' = pending
    /\ sheet' = sheet
    /\ \A p \in Procs : Unappended(p)' = Unappended(p)

IsPush == \E p \in Procs : pc[p] \in {"scan_rpush", "val_rpush"} /\ Steps(p)

IsAppendFailure == \E p \in Procs : pc[p] = "flush_append" /\ pc'[p] = "respond"

\* C10: draining is exactly-once, also with several flushes running at the
\* same time.  Only a push adds an event to the queue (a drained event is
\* never put back), and every step that is neither a push nor a failing
\* append leaves the bag of events in queue, drained batches and Ledger as
\* it is: a popped event goes to one batch, a batch goes to the Ledger once.
C10_DrainExactlyOnce ==
    [][ \/ DrainUntouched
        \/ /\ ~IsPush => (QueueBag' \sqsubseteq QueueBag)
           /\ (~IsPush /\ ~IsAppendFailure) => Pool' = Pool ]_vars

\* two flushes are running at once and each has drained part of the queue
C10_Witness ==
    \E p, q \in Procs :
        /\ p # q
        /\ pc[p] \in {"flush_lpop", "flush_append"}
        /\ pc[q] \in {"flush_lpop", "flush_append"}
        /\ rows[p] # <<>>
        /\ rows[q] # <<>>

----------------------------------------------------------------------------
(* C11 *)

\* sequence a occurs in sequence b as a run of consecutive elements
IsSegment(a, b) ==
    \E k \in 0 .. (Len(b) - Len(a)) :
        \A i \in DOMAIN a : b[k + i] = a[i]

\* C11: the queue is FIFO (a push adds at the tail, a drain takes the
\* head and puts its row at the end of the batch), so a batch holds the
\* rows of the events its flush drained, in the order they were pushed;
\* the Ledger call appends exactly the batch, as one block and in that
\* order; and the flush returns the number of rows of that block.
C11_FlushAppendsBatchInOrder ==
    /\ [][ \A p \in Procs :
             /\ (pc[p] \in {"scan_rpush", "val_rpush"} /\ Steps(p))
                   => pending' = Append(pending, record[p])
             /\ (pc[p] = "flush_lpop" /\ Steps(p) /\ pending # <<>>)
                   => /\ pending' = Tail(pending)
                      /\ rows'[p] = Append(rows[p], Row(Head(pending)))
             /\ (pc[p] = "flush_append" /\ Steps(p) /\ ~IsAppendFailure)
                   => /\ sheet' = sheet \o rows[p]
                      /\ rows'[p] = rows[p]
             /\ (pc[p] # "flush_append") => (sheet' = sheet \/ ~Steps(p)) ]_vars
    /\ [](\A p \in Procs :
             pc[p] = "flush_return"
                => /\ flushed[p] = Len(rows[p])
                   /\ IsSegment(rows[p], sheet))

\* a flush is returning 2 or more: its batch of different rows stands in
\* the Ledger as one block
C11_Witness ==
    \E p \in Procs :
        /\ pc[p] = "flush_return"
        /\ flushed[p] >= 2
        /\ rows[p][1] # rows[p][2]
        /\ IsSegment(rows[p], sheet)

----------------------------------------------------------------------------
(* C12 *)

\* a request that has missed the cache for delegate d and has its push ahead
InFlight(d) ==
    \E p \in Procs :
        did[p] = d /\ pc[p] \in {"scan_rpush", "val_lrange", "val_rpush"}

\* delegate d is reported present and has no event in queue, batch or
\* Ledger, and no request is about to push one: d's event was lost by a
\* failed append
Lost(d) == Present(cache, d) /\ EventsFor(d) = 0 /\ ~InFlight(d)

\* C12: a flush whose Ledger append fails puts nothing back in the queue
\* and nothing in the Ledger, drops its batch and leaves the cache as it
\* is; and a participant whose event was lost in this way stays reported
\* as present and gets no new event, whatever requests follow.
C12_FailedAppendLosesBatchKeepsCache ==
    [][ /\ \A p \in Procs :
             (pc[p] = "flush_append" /\ pc'[p] = "respond")
                => /\ pending' = pending
                   /\ sheet' = sheet
                   /\ cache' = cache
                   /\ Unappended(p)' = <<>>
        /\ \A d \in Roster : Lost(d) => Lost(d)' ]_vars

----------------------------------------------------------------------------
(* C13 *)

\* positions of an admission at its queue push and at its cache write
AdmissionSteps == {"scan_rpush", "scan_hset", "val_rpush", "val_hset"}

\* record r is in the queue, in a drained batch or in the Ledger
EventExists(r) ==
    \/ \E i \in DOMAIN pending : pending[i] = r
    \/ \E p \in Procs : \E i \in DOMAIN Unappended(p) : Unappended(p)[i] = Row(r)
    \/ \E i \in DOMAIN sheet : sheet[i] = Row(r)

\* C13: when Redis fails at the push or at the cache write of an
\* admission, the request is answered with the error and its event is in
\* neither structure: not in the queue (nor drained from it) and not in
\* the cache.
C13_AdmissionFailsClosed ==
    [][ \A p \in Procs :
          (pc[p] \in AdmissionSteps /\ pc'[p] = "respond" /\ resp'[p].kind = "500")
             => /\ ~EventExists(record[p])'
                /\ HGet(cache', did[p]) # record[p] ]_vars

----------------------------------------------------------------------------
(* C14 *)

\* the outcomes that say "no such participant"
NotFoundKinds == {"404", "not_found"}

\* the participant_id of record r is a Roster key
OfRoster(r) == Str(r.Delegate_ID) \in Roster

\* C14: a request of a logged-in operator for an identifier that is not
\* in the Roster is answered with a not-found outcome, whichever entry
\* point it came through (scan, validate, manual_scan); no step of such a
\* request changes cache, queue or Ledger; and every event in queue,
\* cache or Ledger is for a Roster key.
C14_UnknownIdRejected ==
    /\ [](\A p \in Procs :
             (pc[p] = "respond" /\ session[p] # NoOc
                /\ resp[p].did \notin Roster \cup {NoId})
                => resp[p].kind \in NotFoundKinds)
    /\ [][ \A p \in Procs :
             (Steps(p) /\ (did[p] \notin Roster \cup {NoId}
                             \/ did'[p] \notin Roster \cup {NoId}))
                => (cache' = cache /\ pending' = pending /\ sheet' = sheet) ]_vars
    /\ [](/\ \A i \in DOMAIN pending : OfRoster(pending[i])
          /\ \A i \in DOMAIN sheet : sheet[i][1] \in Roster
          /\ \A k \in DOMAIN cache : k \in Roster /\ OfRoster(cache[k]))

----------------------------------------------------------------------------
(* C15 *)

\* client p takes a step of refresh_cache: the Ledger read, the cache
\* delete or one cache write
RefreshSteps(p) ==
    /\ Steps(p)
    /\ \/ pc[p] \in {"refresh_delete", "refresh_hset"}
       \/ pc'[p] = "refresh_delete"

\* C15: no step of a rehydration changes the Pending Queue, neither its
\* contents nor its order.
C15_RehydrateLeavesQueue ==
    [][ \A p \in Procs : RefreshSteps(p) => pending' = pending ]_vars

\* a rehydration has completed while events are queued
C15_Witness ==
    \E p \in Procs :
        /\ pc[p] = "respond"
        /\ resp[p].kind = "refreshed"
        /\ pending # <<>>

----------------------------------------------------------------------------
(* C16 *)

\* the participant_ids that have a Ledger row
LedgerIds == { sheet[i][1] : i \in DOMAIN sheet }

\* C16: with requests served one at a time, when a rehydration has
\* completed the cache is exactly the mapping of the Ledger: its keys are
\* the participant_ids with a Ledger row, and each value is the record
\* get_all_records() makes of that participant's (last) row.  Whatever
\* was cached before for a participant without a Ledger row is gone.
C16_RehydrateBuildsLedgerMapping ==
    \A p \in Procs :
        (pc[p] = "respond" /\ resp[p].kind = "refreshed")
           => /\ DOMAIN cache = LedgerIds
              /\ \A d \in DOMAIN cache : cache[d] = SheetRecord(LastRow(d))

\* a rehydration has completed on a Ledger with rows of two participants,
\* the id of one of them read back as an int and cached under its str
C16_Witness ==
    \E p \in Procs :
        /\ pc[p] = "respond"
        /\ resp[p].kind = "refreshed"
        /\ Cardinality(LedgerIds) = 2
        /\ DOMAIN cache = LedgerIds
        /\ cache["22"].Delegate_ID = "int:22"

----------------------------------------------------------------------------
(* C17 *)

\* positions inside flush_pending
FlushPositions == {"flush_lpop", "flush_append", "flush_hset", "flush_return"}

\* what the cache shows for delegate d: whether d is present, and if so
\* the operator and the time of the entry
Shown(c, d) ==
    IF Present(c, d)
      THEN <<"present", Str(HGet(c, d).scanned_by), HGet(c, d).timestamp>>
      ELSE <<"absent", NoOc, 0>>

\* C17: no step of a flush changes what the cache shows: after each of
\* its steps the same participants are present, each with the same
\* operator and time, whatever rehydrations and admissions interleave.
C17_FlushKeepsCacheVisibility ==
    [][ \A p \in Procs :
          (pc[p] \in FlushPositions /\ Steps(p))
             => \A d \in Roster : Shown(cache', d) = Shown(cache, d) ]_vars

----------------------------------------------------------------------------
(* C18 *)

\* client p, logged in, sends or is redirected to GET /scan/<d>
ScansFor(p, d) ==
    /\ session[p] # NoOc
    /\ \/ Scan(p, d)
       \/ FollowRedirect(p) /\ did[p] = d

----------------------------------------------------------------------------
(* C19 *)

\* the step that client p takes next in an admission is not held back
NextAdmissionStepEnabled(p) ==
    /\ (pc[p] = "idle" /\ session[p] # NoOc /\ Budget)
          => \A d \in Roster : ENABLED Validate(p, d) /\ ENABLED Scan(p, d)
    /\ pc[p] = "val_lrange" => ENABLED ValLrange(p)
    /\ pc[p] = "val_rpush" => ENABLED ValRpush(p)
    /\ pc[p] = "val_hset" => ENABLED ValHset(p)
    /\ pc[p] = "val_llen" => ENABLED ValLlen(p)
    /\ pc[p] = "scan_rpush" => ENABLED ScanRpush(p)
    /\ pc[p] = "scan_hset" => ENABLED ScanHset(p)
    /\ pc[p] = "scan_llen" => ENABLED ScanLlen(p)
    /\ (pc[p] = "redirect_scan" /\ (Budget \/ Present(cache, did[p])))
          => ENABLED FollowRedirect(p)
    /\ pc[p] = "respond" => ENABLED Deliver(p)

\* C19: while a request is inside the Ledger append, no step of another
\* client's admission waits for it: the admission can begin, check the
\* cache, push, write the cache and be answered.
C19_AppendBlocksNoAdmission ==
    \A q \in Procs : \A p \in Procs \ {q} :
        pc[q] = "flush_append" => NextAdmissionStepEnabled(p)

\* beside a Ledger append still in progress, another client has been
\* answered for a participant who is not in the batch and whose event was
\* pushed after the batch was drained
C19_Witness ==
    \E q \in Procs : \E p \in Procs \ {q} : \E d \in Roster :
        /\ pc[q] = "flush_append"
        /\ RowsFor(rows[q], d) = {}
        /\ pc[p] = "respond"
        /\ resp[p].kind = "already"
        /\ resp[p].did = d
        /\ resp[p].scanned_by = session[p]
        /\ QueuedFor(pending, d) # {}
        /\ Present(cache, d)

----------------------------------------------------------------------------
(* C20 *)

\* only the lpop of a running flush_pending takes a record off the queue,
\* and it takes the head
OnlyFlushRemoves ==
    [][ Len(pending') < Len(pending)
          => /\ pending' = Tail(pending)
             /\ \E p \in Procs :
                   /\ pc[p] = "flush_lpop"
                   /\ rows'[p] = Append(rows[p], Row(Head(pending))) ]_vars

\* every event that the cache shows is in the queue or in the Ledger
QueuedOrFlushed ==
    \A d \in Roster :
        Present(cache, d) => (QueuedFor(pending, d) # {} \/ InSheet(d))

\* C20: an event leaves the queue only in flush_pending, and at every
\* moment an event that the cache shows is either still in the queue or
\* already in the Ledger.
C20_FlushTransitionAtomic == OnlyFlushRemoves /\ []QueuedOrFlushed

----------------------------------------------------------------------------
(* C21 *)

\* the six fields of event r in the column order of Attendance_Log
SixFields(r) ==
    << r.Delegate_ID, r.name, r.committee, r.portfolio, r.scanned_by, r.timestamp >>

\* the events an admission can build
AdmissibleEvents ==
    { MakeRecord(d, oc, t) : d \in Roster, oc \in OcIds, t \in Times }

\* C21: the row that a flush makes of a drained event is the event's six
\* fields, unchanged and in the order Delegate_ID, name, committee,
\* portfolio, scanned_by, timestamp; the rows a flush appends are those
\* rows, so every Ledger row is the six fields of an admitted event (with
\* an empty portfolio where the roster has none).
C21_LedgerRowIsEventFields ==
    /\ [][ /\ \A p \in Procs :
                 (pc[p] = "flush_lpop" /\ rows'[p] # rows[p])
                    => rows'[p] = Append(rows[p], SixFields(Head(pending)))
           /\ (sheet' # sheet)
                 => (\E p \in Procs : /\ pc[p] = "flush_append"
                                       /\ Steps(p)
                                       /\ sheet' = sheet \o rows[p]) ]_vars
    /\ [](\A i \in DOMAIN sheet :
              \E r \in AdmissibleEvents : sheet[i] = SixFields(r))

\* the Ledger holds a row of a participant with a portfolio and a row of
\* one without
C21_Witness ==
    /\ \E i \in DOMAIN sheet : sheet[i][1] = "D1" /\ sheet[i][4] = "France"
    /\ \E i \in DOMAIN sheet : sheet[i][1] = "22" /\ sheet[i][4] = ""

----------------------------------------------------------------------------
(* C22 *)

\* the last call was op(...) and gave the boolean that tells whether the
\* credentials are those of a registered operator
GaveCredentialCheck ==
    /\ outcome.gave.raised = ""
    /\ outcome.gave.value =
          IF outcome.a \in DOMAIN oc_members /\ oc_members[outcome.a] = outcome.b
             THEN "True" ELSE "False"

\* main.py's authenticate returns the boolean for every input
MainAuthenticateYieldsBoolean ==
    outcome.op = "main_authenticate" => GaveCredentialCheck

\* C22: authenticate returns a boolean for every input, True for the
\* credentials of a registered operator and False otherwise; this holds
\* of the method in services.py and of the one in main.py.
C22_AuthenticateYieldsBoolean ==
    outcome.op \in {"authenticate", "main_authenticate"} => GaveCredentialCheck

----------------------------------------------------------------------------
(* C23 *)

\* C23: a call of mark_attendance with an empty delegate_id or an empty
\* oc_id raises AttendanceException and leaves the attendance log as it
\* was; a call with both non-empty raises nothing, and after it
\* is_present(delegate_id) is true.
C23_MarkAttendanceContract ==
    [][ outcome'.op = "mark_attendance"
          => IF outcome'.a = "" \/ outcome'.b = ""
                THEN /\ outcome'.gave.raised = "AttendanceException"
                     /\ attendance_log' = attendance_log
                ELSE /\ outcome'.gave.raised = ""
                     /\ is_present(attendance_log', outcome'.a) ]_vars

\* with delegates already marked, a call without oc_id has been refused
C23_Witness ==
    /\ outcome.op = "mark_attendance"
    /\ outcome.a # ""
    /\ outcome.b = ""
    /\ outcome.gave.raised = "AttendanceException"
    /\ ~is_present(attendance_log, outcome.a)
    /\ attendance_log # NoAttendance

----------------------------------------------------------------------------
(* C24 *)

\* client p decides to admit: scan after its hget, validate after its lrange
DecidesToAdmit(p) ==
    /\ pc[p] \in {"idle", "redirect_scan", "val_lrange"}
    /\ pc'[p] \in {"scan_rpush", "val_rpush"}

\* C24: when scan or validate decides to admit a participant, the
\* participant has no entry in the cache and no event in the queue; so a
\* participant whose queued event lost its cache entry to a rehydrate is
\* not admitted again.
C24_AdmitsOnlyIfAbsentFromBoth ==
    [][ \A p \in Procs :
          DecidesToAdmit(p)
             => /\ ~Present(cache, did'[p])
                /\ ~InPending(pending, did'[p]) ]_vars

\* the same, of validate alone
ValidateAdmitsOnlyIfAbsentFromBoth ==
    [][ \A p \in Procs :
          (pc[p] = "val_lrange" /\ pc'[p] = "val_rpush")
             => /\ ~Present(cache, did'[p])
                /\ ~InPending(pending, did'[p]) ]_vars

----------------------------------------------------------------------------
(* C25 *)

\* every queued event is the one the cache holds for its participant
QueuedEventsCached ==
    \A i \in DOMAIN pending :
        HGet(cache, pending[i].Delegate_ID) = pending[i]

\* the queue holds at most one event per participant
OneQueuedEventEach ==
    \A i, j \in DOMAIN pending :
        pending[i].Delegate_ID = pending[j].Delegate_ID => i = j

\* C25: in every state (any of them can be read by another client's
\* request) each queued event has a cache entry holding that same event,
\* and no participant has two events in the queue.
C25_QueueMirroredInCache == QueuedEventsCached /\ OneQueuedEventEach

----------------------------------------------------------------------------
(* C26 *)

\* client p pushes its event: the queue gains it at the tail, and queue,
\* drained batches and Ledger together gain exactly one copy of it
PushAddsOneCopy(p) ==
    /\ pending' = Append(pending, record[p])
    /\ sheet' = sheet
    /\ \A q \in Procs : Unappended(q)' = Unappended(q)
    /\ Pool' = Pool (+) SetToBag({Row(record[p])})

\* C26: with every Ledger append succeeding, an admitted event is never
\* lost and never doubled on its way: a push puts one copy of the event
\* into the queue, whether or not a drain is running, every other step
\* keeps the events of queue, drained batches and Ledger together as they
\* are (a popped event is in the batch, an appended batch is in the
\* Ledger), and an event that the cache shows is in one of the three.
C26_NoAdmittedEventLost ==
    /\ [][ \A p \in Procs :
              IF pc[p] \in {"scan_rpush", "val_rpush"} /\ Steps(p)
                 THEN PushAddsOneCopy(p)
                 ELSE IsPush \/ DrainUntouched \/ Pool' = Pool ]_vars
    /\ [](\A d \in Roster : Present(cache, d) => EventsFor(d) >= 1)

\* a flush has drained the event of a client that has pushed it and not
\* yet written the cache, while another event is still in the queue
C26_Witness ==
    \E q \in Procs : \E p \in Procs \ {q} :
        /\ pc[q] = "flush_lpop"
        /\ pc[p] \in {"scan_hset", "val_hset"}
        /\ \E i \in DOMAIN rows[q] : rows[q][i] = Row(record[p])
        /\ pending # <<>>

----------------------------------------------------------------------------
(* C27 *)

\* a refresh_cache has cleared the cache and not yet written back every
\* record it read
Rehydrating == \E p \in Procs : pc[p] = "refresh_hset"

\* C27: while a rehydrate is between its delete and the last hset, the
\* cache still shows every participant who has a Ledger row, and no
\* request decides to admit such a participant.
C27_RehydrateAtomicForReaders ==
    /\ [](\A d \in Roster : (Rehydrating /\ InSheet(d)) => Present(cache, d))
    /\ [][ \A q \in Procs :
              (Rehydrating /\ DecidesToAdmit(q)) => ~InSheet(did'[q]) ]_vars

----------------------------------------------------------------------------
(* C28 *)

\* a turn of the drain loop either takes one event off the queue or finds
\* the queue empty and leaves the loop
DrainTurn(p) ==
    \/ pending # <<>> /\ pending' = Tail(pending) /\ pc'[p] = "flush_lpop"
    \/ pending = <<>> /\ pending' = pending /\ pc'[p] \in {"flush_append", "flush_return"}

----------------------------------------------------------------------------
(* C29 *)

\* the credentials are those of an operator of the preloaded mapping m
InMapping(m, oc, pw) == oc \in DOMAIN m /\ m[oc] = pw

\* the last login call of app.py or B1_login.py, with what it compares:
\* app.py strips the form fields first, B1_login.py takes them as typed
LoginCalled == outcome'.op \in {"app_login", "b1_login"} /\ outcome' # outcome
ComparedOc == IF outcome'.op = "app_login" THEN Strip(outcome'.a) ELSE outcome'.a
ComparedPw == IF outcome'.op = "app_login" THEN Strip(outcome'.b) ELSE outcome'.b

\* C29, as the code has it: a login sets the session's oc_id exactly when
\* the credentials it compares (the form fields, in app.py after
\* stripping blanks around them) are an operator of the preloaded mapping
\* with that operator's password, and then to that operator; a failed
\* login leaves the session as it was, logged in or not.
C29_SessionIffCredentials ==
    /\ [][ \A p \in Procs : \A oc \in FormOcIds(p), pw \in FormPasswords :
              Login(p, oc, pw)
                 => IF InMapping(oc_list, oc, pw)
                       THEN session'[p] = oc
                       ELSE session'[p] = session[p] ]_vars
    /\ [][ LoginCalled
              => IF InMapping(oc_members, ComparedOc, ComparedPw)
                    THEN app_session' = ComparedOc
                    ELSE app_session' = app_session ]_vars

\* C29: a login sets the session's oc_id exactly when the submitted oc_id
\* is a key of the preloaded mapping and the submitted password is that
\* operator's; after a failed login the session is unchanged and holds no
\* oc_id.
C29_FailedLoginUnauthenticated ==
    /\ [][ \A p \in Procs : \A oc \in FormOcIds(p), pw \in FormPasswords :
              Login(p, oc, pw)
                 => IF InMapping(oc_list, oc, pw)
                       THEN session'[p] = oc
                       ELSE session'[p] = session[p] /\ session'[p] = NoOc ]_vars
    /\ [][ LoginCalled
              => IF InMapping(oc_members, outcome'.a, outcome'.b)
                    THEN app_session' = outcome'.a
                    ELSE app_session' = app_session /\ app_session' = NoOc ]_vars

\* a failed login has left the session of a logged-in operator in place,
\* and app.py has logged in an operator whose id was typed with a blank
C29_Witness ==
    /\ \E p \in Procs :
          /\ pc[p] = "respond"
          /\ resp[p].kind = "invalid_credentials"
          /\ session[p] # NoOc
    /\ outcome.op = "app_login"
    /\ outcome.a = " OC7"
    /\ app_session = "OC7"

----------------------------------------------------------------------------
(* C30 *)

\* the push of an admission by client p
AdmissionPush(p) ==
    /\ pc[p] \in {"scan_rpush", "val_rpush"}
    /\ Steps(p)
    /\ pending' # pending

\* app.py stores one record, made out to the operator of the session
StoresForSession ==
    \E d \in delegate_ids :
        /\ ~is_present(attendance_log, d)
        /\ is_present(attendance_log', d)
        /\ attendance_log'[d].scanned_by = app_session
        /\ attendance_log' = HSet(attendance_log, d, attendance_log'[d])

\* C30: a step of a request whose session holds no oc_id leaves the Fast
\* Cache, the Pending Queue and the Ledger as they are, and app.py changes
\* its attendance log only for a session whose oc_id is an operator's; the
\* event an admission pushes is made out to the oc_id of the request's
\* session, which is an operator of the preloaded mapping, and so is every
\* record of app.py's log.
C30_OnlyLoggedInChangesAttendance ==
    /\ [][ \A p \in Procs :
              Steps(p) /\ session[p] = NoOc
                 => UNCHANGED <<cache, pending, sheet>> ]_vars
    /\ [][ \A p \in Procs :
              AdmissionPush(p)
                 => /\ session[p] \in DOMAIN oc_list
                    /\ pending' = Append(pending, record[p])
                    /\ record[p].scanned_by = session[p] ]_vars
    /\ [][ attendance_log' # attendance_log
              => /\ app_session \in DOMAIN oc_members
                 /\ StoresForSession ]_vars
    /\ [](\A i \in DOMAIN pending : pending[i].scanned_by \in DOMAIN oc_list)
    /\ [](\A d \in delegate_ids :
              is_present(attendance_log, d)
                 => attendance_log[d].scanned_by \in DOMAIN oc_members)

\* a client without a session has been turned away from a scan while the
\* event another client admitted, made out to its operator, is queued
C30_Witness ==
    \E p, q \in Procs :
        /\ session[p] = NoOc
        /\ pc[p] = "respond"
        /\ resp[p].kind = "401"
        /\ session[q] # NoOc
        /\ \E i \in DOMAIN pending : pending[i].scanned_by = session[q]

\* app.py has turned away a validate without a session
AppTurnedAway ==
    /\ outcome.op = "app_validate"
    /\ outcome.gave = Returned("redirect_login")
    /\ attendance_log = NoAttendance

\* app.py has stored a record for the operator of its session
AppStoredForSession ==
    /\ outcome.op = "app_validate"
    /\ \E d \in delegate_ids :
          /\ is_present(attendance_log, d)
          /\ attendance_log[d].scanned_by = app_session

----------------------------------------------------------------------------
(* C31 *)

\* client p sends a scan, validate, manual_scan or refresh request
AttendanceRequest(p) ==
    \/ \E d \in UrlIds : Scan(p, d)
    \/ \E d \in UrlIds : Validate(p, d)
    \/ \E d \in FormIds : ManualScan(p, d)
    \/ Refresh(p)

\* the request of client p is answered at once with a refusal
Refused(p) ==
    /\ pc'[p] = "respond"
    /\ resp'[p].kind \in {"401", "redirect_login"}
    /\ UNCHANGED <<cache, pending, sheet, session>>

\* this step is a scan or validate request to app.py
AppRequestCalled ==
    outcome'.op \in {"app_scan", "app_validate"} /\ outcome' # outcome

\* C31: a logout leaves no oc_id in the session and changes neither the
\* Fast Cache, the Pending Queue, the Ledger nor app.py's attendance log;
\* while a session holds no oc_id every scan, validate, manual_scan or
\* refresh request in it is refused (401 or a redirect to the login page)
\* without touching attendance state; and a session without an oc_id
\* gets one only by a login with an operator's credentials.
C31_LogoutEndsSession ==
    /\ [][ \A p \in Procs :
              Logout(p) => /\ session'[p] = NoOc
                           /\ UNCHANGED <<cache, pending, sheet>> ]_vars
    /\ [][ \A p \in Procs :
              session[p] = NoOc /\ AttendanceRequest(p) => Refused(p) ]_vars
    /\ [][ \A p \in Procs :
              session[p] = NoOc /\ session'[p] # NoOc
                 => \E oc \in FormOcIds(p), pw \in FormPasswords :
                       Login(p, oc, pw) /\ InMapping(oc_list, oc, pw) ]_vars
    /\ [][ outcome'.op = "app_logout" /\ outcome' # outcome
              => app_session' = NoOc /\ attendance_log' = attendance_log ]_vars
    /\ [][ app_session = NoOc /\ AppRequestCalled
              => /\ outcome'.gave = Returned("redirect_login")
                 /\ attendance_log' = attendance_log
                 /\ app_session' = NoOc ]_vars
    /\ [][ app_session = NoOc /\ app_session' # NoOc
              => /\ outcome'.op = "app_login"
                 /\ InMapping(oc_members, app_session', Strip(outcome'.b)) ]_vars

\* client p, whose operator admitted the queued event, has logged out
\* and has since been refused a scan
C31_Witness ==
    \E p \in Procs :
        /\ session[p] = NoOc
        /\ pc[p] = "respond"
        /\ resp[p].kind = "401"
        /\ \E i \in DOMAIN pending : pending[i].scanned_by = ClientOc(p)

\* app.py has turned away a validate of a client that had marked a
\* delegate and then logged out
AppRefusedAfterLogout ==
    /\ app_session = NoOc
    /\ outcome.op = "app_validate"
    /\ outcome.gave = Returned("redirect_login")
    /\ attendance_log # NoAttendance

----------------------------------------------------------------------------
(* C32 *)

\* this step is a mark_attendance call for a delegate marked before
MarkedAgain ==
    /\ outcome'.op = "mark_attendance"
    /\ outcome'.gave.raised = ""
    /\ outcome'.a \in DOMAIN first_mark

\* C32: a record of the attendance log is never changed or deleted once
\* it is there, and mark_attendance for a delegate that was ever marked
\* returns a record with the scanned_by and timestamp of that delegate's
\* first mark, whatever mark_attendance, remove_attendance and
\* clear_all_attendance calls came between.
C32_RecordsNeverMutatedOrDeleted ==
    /\ [][ \A d \in DOMAIN attendance_log :
              /\ d \in DOMAIN attendance_log'
              /\ attendance_log'[d] = attendance_log[d] ]_vars
    /\ [][ MarkedAgain
              => /\ outcome'.gave.rec.scanned_by = first_mark[outcome'.a].scanned_by
                 /\ outcome'.gave.rec.timestamp = first_mark[outcome'.a].timestamp ]_vars

\* mark_attendance alone never changes or deletes a record: whatever was
\* removed was removed by remove_attendance or clear_all_attendance
OnlyRemovalsDelete ==
    [][ (\E d \in DOMAIN attendance_log :
            d \notin DOMAIN attendance_log' \/ attendance_log'[d] # attendance_log[d])
          => outcome'.op \in {"remove_attendance", "clear_all_attendance"} ]_vars

\* a delegate has been marked again, after a removal, by another operator
\* at a later time than its first mark
RemarkedAfterRemoval ==
    \E d \in DOMAIN attendance_log :
        /\ outcome.op = "mark_attendance"
        /\ outcome.a = d
        /\ outcome.gave.rec = attendance_log[d]
        /\ attendance_log[d].scanned_by # first_mark[d].scanned_by
        /\ attendance_log[d].timestamp # first_mark[d].timestamp

----------------------------------------------------------------------------
(* C33 *)

\* the sum of the values of f over the keys in S
RECURSIVE SumOver(_, _)
SumOver(f, S) ==
    IF S = {} THEN 0
    ELSE LET k == CHOOSE x \in S : TRUE IN f[k] + SumOver(f, S \ {k})

Elements(sq) == { sq[i] : i \in DOMAIN sq }

\* C33: in every reachable state of AttendanceService the summary that
\* get_attendance_summary returns has total_scanned equal to the number of
\* delegates marked present, present_delegate_ids listing exactly those
\* delegates, each once, records holding exactly one record for each of
\* them and no other, and counts in scanned_by_oc, one per operator of a
\* record, that add up to total_scanned.
C33_SummaryAgreesWithLog ==
    LET sm == get_attendance_summary(attendance_log)
        present == DOMAIN attendance_log
    IN /\ sm.total_scanned = Cardinality(present)
       /\ Elements(sm.present_delegate_ids) = present
       /\ Len(sm.present_delegate_ids) = Cardinality(present)
       /\ Len(sm.records) = Cardinality(present)
       /\ \A d \in present :
             Cardinality({ i \in DOMAIN sm.records : sm.records[i].delegate_id = d }) = 1
       /\ \A i \in DOMAIN sm.records :
             sm.records[i] = attendance_log[sm.records[i].delegate_id]
       /\ DOMAIN sm.scanned_by_oc = { attendance_log[d].scanned_by : d \in present }
       /\ \A oc \in DOMAIN sm.scanned_by_oc :
             sm.scanned_by_oc[oc] =
                Cardinality({ d \in present : attendance_log[d].scanned_by = oc })
       /\ SumOver(sm.scanned_by_oc, DOMAIN sm.scanned_by_oc) = sm.total_scanned

\* the summary has been asked for while two delegates are present, both
\* marked by one operator, one of them marked again after a removal
C33_Witness ==
    /\ outcome.op = "get_attendance_summary"
    /\ Cardinality(DOMAIN attendance_log) = 2
    /\ \A d, e \in DOMAIN attendance_log :
          attendance_log[d].scanned_by = attendance_log[e].scanned_by
    /\ \E d \in DOMAIN attendance_log : attendance_log[d] # first_mark[d]

====
